---- MODULE Spec2Model ----
(***************************************************************************)
(* pushmybutton.py: an AWS Lambda handler that turns an IoT button click   *)
(* into calls against the Leading2Lean REST API.  One invocation of        *)
(* lambda_handler is modelled as a sequential program whose steps are the  *)
(* outbound HTTP calls; the API (and the network) is the environment and   *)
(* answers every call with any JSON envelope, or not at all.               *)
(***************************************************************************)
EXTENDS Integers, Sequences, FiniteSets, TLC

VARIABLES pc, event, handler, thingData, machineInfo, order, line, product,
          calls, returns, handlerResult, response, exception,
          frJson, frLimit, frOut

vars == <<pc, event, handler, thingData, machineInfo, order, line, product,
          calls, returns, handlerResult, response, exception,
          frJson, frLimit, frOut>>

(* ------------------------------ bounds -------------------------------- *)

\* longest JSON array the API answers with
MaxLen == 2
\* largest value of the limit parameter handed to finishRequest
MaxLimit == 2
\* seconds the wall clock can show during one invocation (0..MaxTick)
MaxTick == 1

(* --------------------------- configuration ---------------------------- *)

URL == "https://acme.leading2lean.com/api/1.0/"
AUTH == "abc123"
SITEID == "1"

(* ----------------------------- JSON values ---------------------------- *)
(* What result.json() can produce: null, booleans, numbers, strings,      *)
(* arrays and objects.  An object is a set of <<key, value>> pairs.       *)

JNull == [kind |-> "null"]
JBool(b) == [kind |-> "bool", b |-> b]
JNum(n) == [kind |-> "num", n |-> n]
JStr(s) == [kind |-> "str", s |-> s]
JList(items) == [kind |-> "list", items |-> items]
JDict(fields) == [kind |-> "dict", fields |-> fields]

\* a row of the API carrying the fields the handlers read (the machine's
\* linecode, the line's id, the order's product, the product's code)
RowA == JDict({<<"linecode", "L1">>, <<"id", "7">>, <<"product", "P1">>, <<"code", "C1">>})
\* a non-empty object that lacks the fields the handlers read
RowOther == JDict({<<"name", "x">>})

Scalars == {JNull, JBool(FALSE), JBool(TRUE), JNum(0), JNum(5), JStr(""), JStr("s")}
\* what an array can hold, and what a lookup can hand back
Elems == Scalars \cup {JList(<<>>), JDict({}), RowOther, RowA}

SeqsUpTo(S, n) == UNION {[1..k -> S] : k \in 0..n}
Datas == Elems \cup {JList(s) : s \in SeqsUpTo(Elems, MaxLen)}

\* the API's response envelope {success: bool, data: any}
Envelopes == [success : BOOLEAN, data : Datas]

\* what requests.get / requests.post can end in: no response (the call
\* raises) or a response whose body is an envelope
HttpOutcomes == {[ok |-> FALSE]} \cup {[ok |-> TRUE, json |-> e] : e \in Envelopes}

(* -------------------------- Python semantics -------------------------- *)

\* bool(v)
Truthy(v) ==
    CASE v.kind = "null" -> FALSE
      [] v.kind = "bool" -> v.b
      [] v.kind = "num"  -> v.n # 0
      [] v.kind = "str"  -> v.s # ""
      [] v.kind = "list" -> Len(v.items) > 0
      [] v.kind = "dict" -> v.fields # {}

\* len(v) is defined for strings, lists and dicts; a TypeError otherwise
HasLen(v) == v.kind \in {"str", "list", "dict"}

\* v[key] for a string key: the value of the key in a dict, KeyError when
\* the dict lacks it, TypeError for anything that is not a dict
Subscript(v, key) ==
    IF v.kind = "dict"
    THEN IF \E p \in v.fields : p[1] = key
         THEN [exc |-> "", val |-> (CHOOSE p \in v.fields : p[1] = key)[2]]
         ELSE [exc |-> "KeyError", val |-> ""]
    ELSE [exc |-> "TypeError", val |-> ""]

\* len(v), for the values that have one
PyLen(v) ==
    CASE v.kind = "str"  -> Len(v.s)
      [] v.kind = "list" -> Len(v.items)
      [] v.kind = "dict" -> Cardinality(v.fields)

(* --------------------------- API client helpers ----------------------- *)

\* a lookup or write that ended in no exception and a value
Ok(v) == [exc |-> "", val |-> v]
Raise(e) == [exc |-> e, val |-> JNull]

\* finishRequest: `limit == 1 and len(data) > 0 and isinstance(data, list)`
\* is evaluated left to right, so with limit 1 len() runs on every truthy
\* data, and raises TypeError on a number or a boolean
finishRequest(resultJson, limit) ==
    IF resultJson.success /\ Truthy(resultJson.data)
    THEN IF limit = 1
         THEN IF ~HasLen(resultJson.data)
              THEN Raise("TypeError")
              ELSE IF PyLen(resultJson.data) > 0 /\ resultJson.data.kind = "list"
                   THEN Ok(resultJson.data.items[1])
                   ELSE Ok(resultJson.data)
         ELSE Ok(resultJson.data)
    ELSE Ok(JNull)

\* the parameters every call carries, with the caller's data merged over them
Payload(data, limit) == data @@ [auth |-> AUTH, site |-> SITEID, limit |-> limit]

\* a doGet that went out as a write
doGetAsPost(url, data, limit) ==
    [method |-> "POST", url |-> URL \o url,
     params |-> data @@ [auth |-> AUTH, site |-> SITEID, limit |-> limit]]

\* requests.post(URL + url, {...}) as the call that goes out
doPost(url, data, limit) ==
    [method |-> "POST", url |-> URL \o url, params |-> Payload(data, limit)]

\* requests.get(URL + url, {...}) as the call that goes out
doGet(url, data, limit) ==
    [method |-> "GET", url |-> URL \o url, params |-> Payload(data, limit)]

\* what doGet / doPost hand back for an outcome of the HTTP call
Receive(out, limit) ==
    IF out.ok THEN finishRequest(out.json, limit) ELSE Raise("RequestException")

(* ------------------------------ time helper --------------------------- *)

TwoDigits(n) == IF n < 10 THEN "0" \o ToString(n) ELSE ToString(n)

\* getCurrentDateTimeStr at `now` seconds after midnight of a fixed day
getCurrentDateTimeStr(now) ==
    "2019-06-01 " \o TwoDigits(now \div 3600) \o ":"
                  \o TwoDigits((now \div 60) % 60) \o ":" \o TwoDigits(now % 60)

(* ------------------------------- routing ------------------------------ *)

Serials == {"BUTTON-01-SERIAL", "BUTTON-02-SERIAL", "BUTTON-03-SERIAL",
            "BUTTON-04-SERIAL", "BUTTON-99-SERIAL"}
ClickTypes == {"SINGLE", "DOUBLE", "LONG", "TRIPLE"}

machineCodeLineMatrix ==
    [s \in {"BUTTON-01-SERIAL", "BUTTON-02-SERIAL", "BUTTON-03-SERIAL", "BUTTON-04-SERIAL"} |->
        CASE s = "BUTTON-01-SERIAL" -> "GreenMachine"
          [] s = "BUTTON-02-SERIAL" -> "BlueMachine"
          [] s = "BUTTON-03-SERIAL" -> "YellowMachine"
          [] s = "BUTTON-04-SERIAL" -> "OrangeMachine"]

\* a table lookup that falls back to a default machine
getThingDataWithDefault(serialNumber) ==
    IF serialNumber \in DOMAIN machineCodeLineMatrix
    THEN [exc |-> "", val |-> [machineCode |-> machineCodeLineMatrix[serialNumber]]]
    ELSE [exc |-> "", val |-> [machineCode |-> "GreenMachine"]]

\* getThingData: a KeyError for a serial number the table lacks
getThingData(serialNumber) ==
    IF serialNumber \in DOMAIN machineCodeLineMatrix
    THEN [exc |-> "", val |-> [machineCode |-> machineCodeLineMatrix[serialNumber]]]
    ELSE [exc |-> "KeyError", val |-> [machineCode |-> ""]]

\* the click type -> handler table of lambda_handler
methods ==
    [c \in {"SINGLE", "DOUBLE", "LONG"} |->
        CASE c = "SINGLE" -> "executeIncrementProductCountByMachineCode"
          [] c = "DOUBLE" -> "executeIncrementScrapCountByMachineCode"
          [] c = "LONG"   -> "executeLaunchCodeRedDispatchByMachineCode"]

\* a response that reports the handler's failure
ResponseOfResult(ev, result) ==
    [statusCode |-> IF result.success THEN 200 ELSE 500,
     body |-> ev.clickType \o " event run for button " \o ev.serialNumber]

\* the value lambda_handler returns once the handler has returned
Response(ev, result) ==
    [statusCode |-> 200,
     body |-> ev.clickType \o " event run for button " \o ev.serialNumber]

(* ------------------------- handlers' building blocks ------------------ *)

\* `if order is None:` in place of `if not order:`
NoOrderIsNone(o) == o.kind = "null"

\* `if not order:` of the two count handlers
NoOrder(o) == ~Truthy(o)

\* a fallback that runs whatever the current-order lookup gave
NeedNextOrderAlways(o) == TRUE

\* `if not order:` of getOrderByLineCode, before the fallback
NeedNextOrder(o) == ~Truthy(o)

\* `if not line:` of getNextOrderByLineCode
NoLine(l) == ~Truthy(l)

NoOrderFound == [success |-> FALSE, error |-> "No order found"]
Success(result) == [success |-> TRUE, result |-> result]

\* product.get('code') in place of product['code']
ProductCodeLenient(p) ==
    IF Subscript(p, "code").exc = "" THEN Subscript(p, "code") ELSE [exc |-> "", val |-> ""]

\* product['code'] in the write's payload
ProductCode(p) == Subscript(p, "code")

NextOrderData(lineId) ==
    [line |-> lineId, order_by |-> "-schedule_start_date",
     status__gte |-> "2", status__lte |-> "6"]

executeIncrementProductCountData(linecode, start, end, productcode) ==
    [linecode |-> linecode, start |-> start, end |-> end,
     productcode |-> productcode, actual |-> 1]

\* the scrap handler with the count handler's payload left in
executeIncrementScrapCountDataActual(linecode, start, end, productcode) ==
    [linecode |-> linecode, start |-> start, end |-> end,
     productcode |-> productcode, actual |-> 1]

executeIncrementScrapCountData(linecode, start, end, productcode) ==
    [linecode |-> linecode, start |-> start, end |-> end,
     productcode |-> productcode, scrap |-> 1]

RecordDetailsData(h, linecode, start, end, productcode) ==
    IF h = "executeIncrementProductCountByMachineCode"
    THEN executeIncrementProductCountData(linecode, start, end, productcode)
    ELSE executeIncrementScrapCountData(linecode, start, end, productcode)

\* a dispatch opened without the machine of the button
executeLaunchCodeRedDispatchDataNoMachine(machineCode) ==
    [dispatchtypecode |-> "Code Red", description |-> "Launched by IoT button",
     tradecode |-> "Mechanic", user |-> "DEMOAPI"]

executeLaunchCodeRedDispatchData(machineCode) ==
    [dispatchtypecode |-> "Code Red", description |-> "Launched by IoT button",
     machinecode |-> machineCode, tradecode |-> "Mechanic", user |-> "DEMOAPI"]

(* ------------------------------ the program --------------------------- *)

Unset == [unset |-> TRUE]
NoEvent == [serialNumber |-> "", clickType |-> ""]

\* one entry of the log of what the calls handed back: the exception or the
\* value, and whether the envelope was a failure (success false or empty data)
Entry(out, r) ==
    [exc |-> r.exc, val |-> r.val,
     failed |-> out.ok /\ ~(out.json.success /\ Truthy(out.json.data))]

Init ==
    /\ pc = "idle"
    /\ event = NoEvent
    /\ handler = ""
    /\ thingData = [machineCode |-> ""]
    /\ machineInfo = JNull
    /\ order = JNull
    /\ line = JNull
    /\ product = JNull
    /\ calls = <<>>
    /\ returns = <<>>
    /\ handlerResult = Unset
    /\ response = Unset
    /\ exception = ""
    /\ frJson = [success |-> FALSE, data |-> JNull]
    /\ frLimit = 1
    /\ frOut = Unset

\* an uncaught exception ends the invocation
Raised(e) ==
    /\ pc' = "raised"
    /\ exception' = e
    /\ UNCHANGED <<handlerResult, response>>

\* the handler returns `result`; lambda_handler drops it and returns
Returned(result) ==
    /\ pc' = "returned"
    /\ handlerResult' = result
    /\ response' = Response(event, result)
    /\ UNCHANGED exception

Goto(label) ==
    /\ pc' = label
    /\ UNCHANGED <<handlerResult, response, exception>>

\* lambda_handler up to the handler's first outbound call
lambda_handler ==
    /\ pc = "idle"
    /\ \E serialNumber \in Serials, clickType \in ClickTypes :
         LET td == getThingData(serialNumber) IN
         /\ event' = [serialNumber |-> serialNumber, clickType |-> clickType]
         /\ IF td.exc # ""
            THEN Raised(td.exc) /\ UNCHANGED <<thingData, handler>>
            ELSE /\ thingData' = td.val
                 /\ IF clickType \notin DOMAIN methods
                    THEN Raised("KeyError") /\ UNCHANGED handler
                    ELSE /\ handler' = methods[clickType]
                         /\ IF clickType = "LONG"
                            THEN Goto("executeLaunchCodeRedDispatchByMachineCode")
                            ELSE Goto("getMachineInfoByCode")
    /\ UNCHANGED <<machineInfo, order, line, product, calls, returns,
                   frJson, frLimit, frOut>>

\* after an order was resolved: `if not order` of the handler, then the
\* argument order['product'] of getProductInfoById
AfterOrder(o) ==
    IF NoOrder(o)
    THEN Returned(NoOrderFound)
    ELSE IF Subscript(o, "product").exc # ""
         THEN Raised(Subscript(o, "product").exc)
         ELSE Goto("getProductInfoById")

\* machineInfo = getMachineInfoByCode(...), then machineInfo['linecode']
getMachineInfoByCode ==
    /\ pc = "getMachineInfoByCode"
    /\ calls' = Append(calls, doGet("machines/", [code |-> thingData.machineCode], 1))
    /\ \E out \in HttpOutcomes :
         LET r == Receive(out, 1) IN
         /\ returns' = Append(returns, Entry(out, r))
         /\ IF r.exc # ""
            THEN Raised(r.exc) /\ UNCHANGED machineInfo
            ELSE /\ machineInfo' = r.val
                 /\ IF Subscript(r.val, "linecode").exc # ""
                    THEN Raised(Subscript(r.val, "linecode").exc)
                    ELSE Goto("getCurrentOrderByLineCode")
    /\ UNCHANGED <<event, handler, thingData, order, line, product,
                   frJson, frLimit, frOut>>

\* order = getCurrentOrderByLineCode(lineCode) and what follows it up to
\* the next call
getCurrentOrderByLineCode ==
    /\ pc = "getCurrentOrderByLineCode"
    /\ calls' = Append(calls, doGet("buildsequence/get_current_order_on_line/",
                                    [linecode |-> Subscript(machineInfo, "linecode").val], 1))
    /\ \E out \in HttpOutcomes :
         LET r == Receive(out, 1) IN
         /\ returns' = Append(returns, Entry(out, r))
         /\ IF r.exc # ""
            THEN Raised(r.exc) /\ UNCHANGED order
            ELSE /\ order' = r.val
                 /\ IF NeedNextOrder(r.val)
                    THEN Goto("getLineInfoByCode")
                    ELSE AfterOrder(r.val)
    /\ UNCHANGED <<event, handler, thingData, machineInfo, line, product,
                   frJson, frLimit, frOut>>

\* line = getLineInfoByCode(lineCode) inside getNextOrderByLineCode
getLineInfoByCode ==
    /\ pc = "getLineInfoByCode"
    /\ calls' = Append(calls, doGet("lines/",
                                    [code |-> Subscript(machineInfo, "linecode").val], 1))
    /\ \E out \in HttpOutcomes :
         LET r == Receive(out, 1) IN
         /\ returns' = Append(returns, Entry(out, r))
         /\ IF r.exc # ""
            THEN Raised(r.exc) /\ UNCHANGED <<line, order>>
            ELSE /\ line' = r.val
                 /\ IF NoLine(r.val)
                    THEN order' = JNull /\ AfterOrder(JNull)
                    ELSE /\ UNCHANGED order
                         /\ IF Subscript(r.val, "id").exc # ""
                            THEN Raised(Subscript(r.val, "id").exc)
                            ELSE Goto("getNextOrderByLineCode")
    /\ UNCHANGED <<event, handler, thingData, machineInfo, product,
                   frJson, frLimit, frOut>>

\* the buildsequence/ lookup of getNextOrderByLineCode
getNextOrderByLineCode ==
    /\ pc = "getNextOrderByLineCode"
    /\ calls' = Append(calls, doGet("buildsequence/",
                                    NextOrderData(Subscript(line, "id").val), 1))
    /\ \E out \in HttpOutcomes :
         LET r == Receive(out, 1) IN
         /\ returns' = Append(returns, Entry(out, r))
         /\ IF r.exc # ""
            THEN Raised(r.exc) /\ UNCHANGED order
            ELSE /\ order' = r.val
                 /\ AfterOrder(r.val)
    /\ UNCHANGED <<event, handler, thingData, machineInfo, line, product,
                   frJson, frLimit, frOut>>

\* product = getProductInfoById(order['product']), then product['code']
getProductInfoById ==
    /\ pc = "getProductInfoById"
    /\ calls' = Append(calls, doGet("productcomponents/",
                                    [id |-> Subscript(order, "product").val], 1))
    /\ \E out \in HttpOutcomes :
         LET r == Receive(out, 1) IN
         /\ returns' = Append(returns, Entry(out, r))
         /\ IF r.exc # ""
            THEN Raised(r.exc) /\ UNCHANGED product
            ELSE /\ product' = r.val
                 /\ IF ProductCode(r.val).exc # ""
                    THEN Raised(ProductCode(r.val).exc)
                    ELSE Goto("recordDetails")
    /\ UNCHANGED <<event, handler, thingData, machineInfo, order, line,
                   frJson, frLimit, frOut>>

\* the write of the two count handlers and their return
recordDetails ==
    /\ pc = "recordDetails"
    /\ \E start \in 0..MaxTick, end \in 0..MaxTick :
         /\ start <= end
         /\ calls' = Append(calls,
               doPost("pitchdetails/record_details/",
                      RecordDetailsData(handler,
                                        Subscript(machineInfo, "linecode").val,
                                        getCurrentDateTimeStr(start),
                                        getCurrentDateTimeStr(end),
                                        ProductCode(product).val), 1))
    /\ \E out \in HttpOutcomes :
         LET r == Receive(out, 1) IN
         /\ returns' = Append(returns, Entry(out, r))
         /\ IF r.exc # "" THEN Raised(r.exc) ELSE Returned(Success(r.val))
    /\ UNCHANGED <<event, handler, thingData, machineInfo, order, line, product,
                   frJson, frLimit, frOut>>

\* executeLaunchCodeRedDispatchByMachineCode
executeLaunchCodeRedDispatchByMachineCode ==
    /\ pc = "executeLaunchCodeRedDispatchByMachineCode"
    /\ calls' = Append(calls,
          doPost("dispatches/open/",
                 executeLaunchCodeRedDispatchData(thingData.machineCode), 1))
    /\ \E out \in HttpOutcomes :
         LET r == Receive(out, 1) IN
         /\ returns' = Append(returns, Entry(out, r))
         /\ IF r.exc # "" THEN Raised(r.exc) ELSE Returned(Success(r.val))
    /\ UNCHANGED <<event, handler, thingData, machineInfo, order, line, product,
                   frJson, frLimit, frOut>>

Next ==
    \/ lambda_handler
    \/ getMachineInfoByCode
    \/ getCurrentOrderByLineCode
    \/ getLineInfoByCode
    \/ getNextOrderByLineCode
    \/ getProductInfoById
    \/ recordDetails
    \/ executeLaunchCodeRedDispatchByMachineCode

Spec == Init /\ [][Next]_vars

(* ---------------- finishRequest on its own: every envelope and limit --- *)

Limits == 0..MaxLimit

\* finishRequest(result, limit) applied to one envelope and one limit
ApplyFinishRequest ==
    /\ pc = "idle"
    /\ frOut = Unset
    /\ \E e \in Envelopes, l \in Limits :
         /\ frJson' = e
         /\ frLimit' = l
         /\ frOut' = finishRequest(e, l)
    /\ UNCHANGED <<pc, event, handler, thingData, machineInfo, order, line,
                   product, calls, returns, handlerResult, response, exception>>

NextFinish == ApplyFinishRequest

SpecFinish == Init /\ [][NextFinish]_vars

(* ======================= properties of an invocation =================== *)

Terminal == pc \in {"returned", "raised"}
Known == event.serialNumber \in
            {"BUTTON-01-SERIAL", "BUTTON-02-SERIAL", "BUTTON-03-SERIAL", "BUTTON-04-SERIAL"}
CountClick == event.clickType \in {"SINGLE", "DOUBLE"}

Writes == {i \in 1..Len(calls) : calls[i].method = "POST"}
Reads == {i \in 1..Len(calls) : calls[i].method = "GET"}

Called(path) == \E i \in 1..Len(calls) : calls[i].url = URL \o path
Idx(path) == CHOOSE i \in 1..Len(calls) : calls[i].url = URL \o path
Got(path) == returns[Idx(path)]

\* the lookup was made and handed back a value that is falsy / truthy
Absent(path) == Called(path) /\ Got(path).exc = "" /\ ~Truthy(Got(path).val)
Present(path) == Called(path) /\ Got(path).exc = "" /\ Truthy(Got(path).val)
\* the lookup handed back an object with the field
Carries(path, key) ==
    /\ Called(path) /\ Got(path).exc = ""
    /\ Got(path).val.kind = "dict"
    /\ \E p \in Got(path).val.fields : p[1] = key

MachinePath == "machines/"
CurrentPath == "buildsequence/get_current_order_on_line/"
LinePath == "lines/"
NextPath == "buildsequence/"
ProductPath == "productcomponents/"

\* every call made so far got a response that finishRequest turned into a
\* value: no call raised
AllCallsAnswered == \A i \in 1..Len(returns) : returns[i].exc = ""

(* ---- C1 ---- *)

C1_NoOrderCase ==
    /\ Known /\ CountClick
    /\ Carries(MachinePath, "linecode")
    /\ Absent(CurrentPath)
    /\ Absent(LinePath) \/ Absent(NextPath)

\* C1: a SINGLE or DOUBLE click on a known serial number whose machine
\* lookup resolved a line and whose order resolution yields no order (the
\* current-order lookup absent, and the lines/ lookup or the next-order
\* lookup absent) returns exactly {success: false, error: "No order found"}
\* with no write call and no product lookup.
C1_NoOrderFound ==
    C1_NoOrderCase =>
        /\ pc = "returned"
        /\ handlerResult = [success |-> FALSE, error |-> "No order found"]
        /\ Writes = {}
        /\ ~Called(ProductPath)

C1_Witness ==
    /\ C1_NoOrderCase /\ Absent(NextPath) /\ Got(NextPath).val # JNull
    /\ pc = "returned" /\ event.clickType = "DOUBLE"

(* ---- C2 ---- *)

\* an order with a product on the resolved line
C2_OrderPresent ==
    /\ Known /\ CountClick
    /\ Carries(MachinePath, "linecode")
    /\ Carries(CurrentPath, "product") \/ Carries(NextPath, "product")

C2_OneWrite ==
    /\ Cardinality(Writes) = 1
    /\ \A i \in Writes :
         /\ calls[i].url = "https://acme.leading2lean.com/api/1.0/pitchdetails/record_details/"
         /\ IF event.clickType = "SINGLE"
            THEN /\ "actual" \in DOMAIN calls[i].params
                 /\ calls[i].params.actual = 1
                 /\ "scrap" \notin DOMAIN calls[i].params
            ELSE /\ "scrap" \in DOMAIN calls[i].params
                 /\ calls[i].params.scrap = 1
                 /\ "actual" \notin DOMAIN calls[i].params

\* C2 as written: with an order present, whatever the other API responses
\* are (every call answered with an envelope finishRequest turns into a
\* value), the finished invocation has issued exactly one write.
C2_Original ==
    (Terminal /\ C2_OrderPresent /\ AllCallsAnswered) => C2_OneWrite

\* C2, amended: with an order present, exactly one write (record_details,
\* actual=1 without scrap for SINGLE, scrap=1 without actual for DOUBLE) is
\* issued when the product lookup hands back a product carrying a code;
\* otherwise the invocation raises and no write is issued.
C2_OneWriteWhenProduct ==
    (Terminal /\ C2_OrderPresent) =>
        IF Carries(ProductPath, "code")
        THEN C2_OneWrite
        ELSE Writes = {} /\ pc = "raised"

C2_Witness ==
    /\ Terminal /\ C2_OrderPresent /\ Carries(ProductPath, "code")
    /\ event.clickType = "DOUBLE" /\ Cardinality(Writes) = 1
    /\ pc = "returned"

(* ---- C3 ---- *)

\* C3: a LONG click on a known serial number issues exactly one outbound
\* call, a write to dispatches/open/ with the button's machine code and the
\* fixed dispatch fields, and no read before it.
C3_LongOneWrite ==
    (Known /\ event.clickType = "LONG") =>
        IF Terminal
        THEN /\ Len(calls) = 1
             /\ calls[1].method = "POST"
             /\ calls[1].url = "https://acme.leading2lean.com/api/1.0/dispatches/open/"
             /\ "machinecode" \in DOMAIN calls[1].params
             /\ calls[1].params.machinecode =
                   (CASE event.serialNumber = "BUTTON-01-SERIAL" -> "GreenMachine"
                      [] event.serialNumber = "BUTTON-02-SERIAL" -> "BlueMachine"
                      [] event.serialNumber = "BUTTON-03-SERIAL" -> "YellowMachine"
                      [] event.serialNumber = "BUTTON-04-SERIAL" -> "OrangeMachine")
             /\ calls[1].params.dispatchtypecode = "Code Red"
             /\ calls[1].params.tradecode = "Mechanic"
             /\ calls[1].params.description = "Launched by IoT button"
             /\ calls[1].params.user = "DEMOAPI"
        ELSE calls = <<>>

C3_Witness ==
    /\ Known /\ event.clickType = "LONG" /\ pc = "returned"
    /\ Len(calls) = 1 /\ returns[1].failed

(* ---- C4 (finishRequest alone, under SpecFinish) ---- *)

\* C4: over every envelope and limit, finishRequest returns the first
\* element of data when success is true, data is non-empty, limit is 1 and
\* data is a sequence; the raw data when success is true and data is
\* non-empty otherwise; None when success is false or data is empty.
C4_Normalization ==
    frOut # Unset =>
        frOut = IF frJson.success /\ Truthy(frJson.data)
                THEN IF frLimit = 1 /\ frJson.data.kind = "list"
                     THEN [exc |-> "", val |-> frJson.data.items[1]]
                     ELSE [exc |-> "", val |-> frJson.data]
                ELSE [exc |-> "", val |-> JNull]

(* ---- C5 ---- *)

C5_Expected ==
    [statusCode |-> 200,
     body |-> event.clickType \o " event run for button " \o event.serialNumber]

C5_Case == Known /\ event.clickType \in {"SINGLE", "DOUBLE", "LONG"}

\* C5 as written: for every combination of API responses (every call
\* answered with an envelope finishRequest turns into a value) the finished
\* invocation has returned the statusCode-200 response.
C5_Original ==
    (Terminal /\ C5_Case /\ AllCallsAnswered) =>
        pc = "returned" /\ response = C5_Expected

\* C5, amended: whenever the action handler returns, with success true or
\* success false, lambda_handler returns {statusCode: 200, body: ...}; an
\* invocation whose handler raises returns no response.
C5_ResponseWhenHandlerReturns ==
    (Terminal /\ C5_Case) =>
        IF handlerResult # Unset
        THEN pc = "returned" /\ response = C5_Expected
        ELSE pc = "raised" /\ response = Unset

C5_Witness ==
    /\ Terminal /\ C5_Case
    /\ handlerResult = [success |-> FALSE, error |-> "No order found"]
    /\ response = C5_Expected

(* ---- C6 ---- *)

\* C6: an event whose serial number is not in the table ends in an uncaught
\* KeyError for every click type: no response, no handler, no outbound call.
C6_UnknownSerialFatal ==
    (event # NoEvent /\ ~Known) =>
        /\ pc = "raised" /\ exception = "KeyError"
        /\ response = Unset
        /\ handler = "" /\ handlerResult = Unset
        /\ calls = <<>>

C6_Witness ==
    event.serialNumber = "BUTTON-99-SERIAL" /\ event.clickType = "LONG" /\ pc = "raised"

(* ---- C7 ---- *)

C7_SomeStepFailed ==
    \/ event # NoEvent /\ ~Known
    \/ handlerResult = [success |-> FALSE, error |-> "No order found"]
    \/ \E i \in 1..Len(returns) : returns[i].failed

\* C7: every finished invocation in which a step failed (unknown serial
\* number, no order found, a call answered success=false or with empty
\* data) delivers an exception or a value carrying success=false.
C7_FailuresVisible ==
    (Terminal /\ C7_SomeStepFailed) =>
        \/ pc = "raised"
        \/ /\ "success" \in DOMAIN response
           /\ ~response.success

(* ---- C8 ---- *)

\* C8 as written: at most three calls, at most two reads, at most one write.
C8_Original ==
    /\ Len(calls) <= 3
    /\ Cardinality(Reads) <= 2
    /\ Cardinality(Writes) <= 1

\* C8, amended: every invocation issues at most six sequential outbound
\* calls, of which at most five are reads and at most one is a write.
C8_AtMostSixCalls ==
    /\ Len(calls) <= 6
    /\ Cardinality(Reads) <= 5
    /\ Cardinality(Writes) <= 1

C8_Witness == Len(calls) = 6 /\ Cardinality(Reads) = 5 /\ Cardinality(Writes) = 1

(* ---- C9 ---- *)

\* C9: a present current order is the resolved order and no lines/ or
\* buildsequence/ lookup is made; the fallback runs only after an absent
\* current-order lookup, lines/ and then buildsequence/ (status 2..6, by
\* descending schedule start date, limit 1); an absent lines/ lookup ends
\* the resolution with None and no buildsequence/ call.
C9_OrderResolution ==
    /\ Present(CurrentPath) =>
          /\ ~Called(LinePath) /\ ~Called(NextPath)
          /\ order = Got(CurrentPath).val
    /\ (Absent(CurrentPath) /\ Terminal) => Called(LinePath)
    /\ Called(LinePath) =>
          /\ Absent(CurrentPath)
          /\ Idx(LinePath) = Idx(CurrentPath) + 1
    /\ Called(NextPath) =>
          /\ Present(LinePath)
          /\ Idx(NextPath) = Idx(LinePath) + 1
          /\ calls[Idx(NextPath)].method = "GET"
          /\ calls[Idx(NextPath)].params.status__gte = "2"
          /\ calls[Idx(NextPath)].params.status__lte = "6"
          /\ calls[Idx(NextPath)].params.order_by = "-schedule_start_date"
          /\ calls[Idx(NextPath)].params.limit = 1
          /\ (Got(NextPath).exc = "") => order = Got(NextPath).val
    /\ Absent(LinePath) =>
          /\ ~Called(NextPath)
          /\ order = JNull
          /\ handlerResult = [success |-> FALSE, error |-> "No order found"]

C9_Witness ==
    /\ Present(NextPath) /\ Absent(CurrentPath) /\ Present(LinePath)
    /\ order = RowA

(* ---- C10 ---- *)

\* C10: at most one write is issued and no call follows it; a SINGLE or
\* DOUBLE click writes only after the machine lookup, the order resolution
\* and the product lookup each returned a present result, and an absent
\* machine or product lookup ends in an uncaught exception with no write.
C10_WriteLast ==
    /\ Cardinality(Writes) <= 1
    /\ \A i \in Writes : i = Len(calls)
    /\ (CountClick /\ Writes # {}) =>
          /\ Present(MachinePath)
          /\ Present(CurrentPath) \/ Present(NextPath)
          /\ Present(ProductPath)
          /\ \A i \in Writes :
                /\ Idx(MachinePath) < i /\ Idx(ProductPath) < i
                /\ Called(NextPath) => Idx(NextPath) < i
                /\ Idx(CurrentPath) < i
    /\ (CountClick /\ (Absent(MachinePath) \/ Absent(ProductPath))) =>
          /\ pc = "raised"
          /\ exception \in {"TypeError", "KeyError"}
          /\ Writes = {}

C10_Witness ==
    /\ CountClick /\ Absent(ProductPath) /\ pc = "raised" /\ Len(calls) = 5

====
